---- MODULE Spec2Model ----
(***************************************************************************)
(* A model of goose: the screen-bounded coordinate model                   *)
(* (src/nav/coordinate.rs, src/nav/location.rs), the verification loop of  *)
(* GuiVerb::fire (src/verb/action.rs) and the firing protocol of the Click *)
(* and Input verbs (src/verb/click.rs, src/verb/input.rs).                 *)
(*                                                                         *)
(* An f64 is modelled as a binary floating-point number with a mantissa of *)
(* MantissaBits bits, written as the rational <<n, d>> in lowest terms;    *)
(* every f64 operation rounds its exact result to the nearest such number, *)
(* ties to even.  The device scale factor ranges over the quarter steps    *)
(* from 1 to MaxScaleQuarters / 4.                                         *)
(***************************************************************************)
EXTENDS Integers, Sequences, FiniteSets, TLC

VARIABLES
    scale,      \* autopilot::screen::scale(), fixed for the process lifetime
    pt,         \* the ScreenCoordinates value currently held: <<>> or <<point>>
    last,       \* the last coordinate operation: its inputs and its Result
    overflow_checks,    \* the build: TRUE panics on integer overflow (debug),
                        \* FALSE wraps (release)
    f_pc,       \* GuiVerb::fire: "idle", "loop", "poll" or "done"
    f_timeout,  \* fire's remaining-time counter `timeout`, a u64
    f_timeout0, \* the timeout fire was configured with, in ms
    f_wait,     \* fire's wait_duration, in ms
    f_before,   \* the frame execute() returned
    f_after,    \* the frame of the latest get_screenshot()
    f_now,      \* ms of clock time since execute() returned
    f_polls,    \* the polls made so far
    f_wrapped,  \* whether the counter has wrapped around
    f_result,   \* "none", "ok", "timeout", "error" or "panic"
    ui_change_at,   \* the time from which the screen differs from the frame
                    \* before the action, or Never
    ui_change_px,   \* the pixel in which it differs
    f_error,    \* the UIActionTimeOutError fire returned: <<>> or <<error>>
    v_verb,     \* the verb being fired: "Click" or "Input"
    v_submit,   \* Input.submit
    v_timeout,  \* the timeout of the verb's fire, in ms
    v_zone_fits,    \* whether the check-zone lies within the captured frame
    v_pc,       \* the verb's fire: "idle", "precheck", "execute", "verify", "done"
    v_step,     \* how many primitives of execute() have been called
    v_events,   \* the primitives execute() has called so far, in order
    v_before,   \* the frame execute() captured, once it has
    v_precheck, \* the outcome of the stability pre-check, once it has one
    v_result,   \* what fire returned
    screen,     \* what is on the screen inside the check-zone
    ambient_left,   \* how many unrelated changes of the screen may still come
    c_state,    \* check_ui_state: "idle", "awaiting", "ok", "timeout", "bounds"
    c_is_same,  \* the condition check_ui_state awaits
    c_ref,      \* the reference frame of check_ui_state
    c_now,      \* ms of clock time since the verb's fire was called
    c_deadline, \* the deadline of check_ui_state
    call        \* a call of a function of the library: its arguments and,
                \* once it has returned or panicked, its outcome

coordVars == <<scale, pt, last>>

fireVars == <<overflow_checks, f_pc, f_timeout, f_timeout0, f_wait, f_before,
              f_after, f_now, f_polls, f_wrapped, f_result, ui_change_at,
              ui_change_px, f_error>>

verbVars == <<v_verb, v_submit, v_timeout, v_zone_fits, v_pc, v_step, v_events,
              v_before, v_precheck, v_result, screen, ambient_left, c_state,
              c_is_same, c_ref, c_now, c_deadline>>

callVars == <<call>>

vars == <<scale, pt, last, overflow_checks, f_pc, f_timeout, f_timeout0, f_wait,
          f_before, f_after, f_now, f_polls, f_wrapped, f_result, ui_change_at,
          ui_change_px, f_error,
          v_verb, v_submit, v_timeout, v_zone_fits, v_pc, v_step, v_events,
          v_before, v_precheck, v_result, screen, ambient_left, c_state,
          c_is_same, c_ref, c_now, c_deadline, call>>

-----------------------------------------------------------------------------
(* Bounds of the model *)

ScreenWidth == 3        \* screen::size().width, in scaled units
ScreenHeight == 2       \* screen::size().height, in scaled units
MaxScaleQuarters == 12  \* device scale factors 4/4, 5/4, .. MaxScaleQuarters/4
MantissaBits == 11      \* the precision of the floating-point numbers
MaxPolls == 12          \* fire's loop is followed for at most this many polls
MaxAmbient == 2         \* unrelated changes of the screen during one fire

-----------------------------------------------------------------------------
(* Rationals *)

RECURSIVE GCD(_, _)
GCD(a, b) == IF b = 0 THEN a ELSE GCD(b, a % b)

Abs(n) == IF n < 0 THEN -n ELSE n

\* The rational n/d (d > 0) in lowest terms.
Rat(n, d) ==
    LET g == GCD(Abs(n), d)
    IN  <<n \div g, d \div g>>

FromInt(i) == <<i, 1>>

Zero == FromInt(0)

RAdd(a, b) == Rat(a[1] * b[2] + b[1] * a[2], a[2] * b[2])

\* a / b for b > 0
RDiv(a, b) == Rat(a[1] * b[2], a[2] * b[1])

RMul(a, b) == Rat(a[1] * b[1], a[2] * b[2])

RGt(a, b) == a[1] * b[2] > b[1] * a[2]

RGe(a, b) == a[1] * b[2] >= b[1] * a[2]

-----------------------------------------------------------------------------
(* f64: rationals rounded to MantissaBits significant bits *)

\* 2^e <= a, for a rational a > 0 and an integer e
Pow2Le(e, a) ==
    IF e >= 0 THEN a[2] * (2 ^ e) <= a[1] ELSE a[2] <= a[1] * (2 ^ (0 - e))

RECURSIVE ExponentUp(_, _)
ExponentUp(a, e) == IF Pow2Le(e + 1, a) THEN ExponentUp(a, e + 1) ELSE e

RECURSIVE ExponentDown(_, _)
ExponentDown(a, e) == IF Pow2Le(e, a) THEN e ELSE ExponentDown(a, e - 1)

\* The binary exponent of a > 0: the e with 2^e <= a < 2^(e+1).
Exponent(a) ==
    IF Pow2Le(0, a) THEN ExponentUp(a, 0) ELSE ExponentDown(a, 0 - 1)

\* The element of the one-element set S; its members are evaluated once.
The(S) == CHOOSE v \in S : TRUE

\* The multiple of 2^k nearest to the rational a > 0, ties to the even
\* multiple.
NearestMultiple(a, k) ==
    LET N == IF k >= 0 THEN a[1] ELSE a[1] * (2 ^ (0 - k))
        D == IF k >= 0 THEN a[2] * (2 ^ k) ELSE a[2]
        q == N \div D
        rem2 == 2 * (N - q * D)
        m == IF rem2 > D \/ (rem2 = D /\ q % 2 = 1) THEN q + 1 ELSE q
    IN  IF k >= 0 THEN Rat(m * (2 ^ k), 1) ELSE Rat(m, 2 ^ (0 - k))

\* The floating-point number nearest to the rational a > 0: one unit in the
\* last place of its mantissa is 2^(Exponent(a) - MantissaBits + 1).
RoundPositive(a) ==
    The({NearestMultiple(a, k) : k \in {Exponent(a) - MantissaBits + 1}})

Negate(a) == <<0 - a[1], a[2]>>

\* The floating-point number nearest to the rational r, ties to even.
RoundF(r) ==
    The({IF v[1] = 0 THEN Zero
         ELSE IF v[1] < 0 THEN Negate(RoundPositive(Negate(v)))
         ELSE RoundPositive(v) : v \in {r}})

\* a + b, a / b and a * b on f64
FAdd(a, b) == RoundF(RAdd(a, b))

FDiv(a, b) == RoundF(RDiv(a, b))

FMul(a, b) == RoundF(RMul(a, b))

\* `v as i32` for an f64 v of a magnitude below 2^31: the fraction is dropped.
AsI32(v) == IF v[1] >= 0 THEN v[1] \div v[2] ELSE 0 - ((0 - v[1]) \div v[2])

\* Option<T>: None is <<>>, Some(v) is <<v>>
None == <<>>

Some(v) == <<v>>

-----------------------------------------------------------------------------
(* u64 arithmetic, on four 16-bit limbs, least significant first *)

LimbBase == 2 ^ 16

\* The u64 of a number below 2^32.
U64(n) == <<n % LimbBase, n \div LimbBase, 0, 0>>

U64IsZero(c) == \A i \in 1..4 : c[i] = 0

\* c - k for 0 <= k < 2^16: the difference modulo 2^64, and whether the
\* subtraction overflowed.
U64Sub(c, k) ==
    LET d1 == c[1] - k
        d2 == c[2] - (IF d1 < 0 THEN 1 ELSE 0)
        d3 == c[3] - (IF d2 < 0 THEN 1 ELSE 0)
        d4 == c[4] - (IF d3 < 0 THEN 1 ELSE 0)
        Limb(d) == IF d < 0 THEN d + LimbBase ELSE d
    IN  [val |-> <<Limb(d1), Limb(d2), Limb(d3), Limb(d4)>>,
         overflow |-> d4 < 0]

\* 2^32 - k for 0 < k <= 2^16, as a u64
U64Below2Pow32(k) == <<LimbBase - k, LimbBase - 1, 0, 0>>

\* `c as i32` for a u64 c: the low 32 bits, read as two's complement.
U64AsI32(c) ==
    IF c[2] >= LimbBase \div 2
    THEN c[1] + (c[2] - LimbBase) * LimbBase
    ELSE c[1] + c[2] * LimbBase

\* a / b on i32, b > 0: the quotient is truncated towards zero.
I32Div(a, b) == IF a >= 0 THEN a \div b ELSE 0 - ((0 - a) \div b)

Min(a, b) == IF a <= b THEN a ELSE b

-----------------------------------------------------------------------------
(* Frames: tuples of BGR pixels *)

NPixels == 2

Black == <<0, 0, 0>>

White == <<255, 255, 255>>

\* The screen before the action has had an effect, and after.
BaseFrame == [i \in 1..NPixels |-> Black]

ChangedFrame ==
    [i \in 1..NPixels |-> IF i = ui_change_px THEN White ELSE Black]

Never == 0 - 1

\* What a capture at clock time t sees.
ScreenAt(t) ==
    IF ui_change_at # Never /\ t >= ui_change_at THEN ChangedFrame ELSE BaseFrame

-----------------------------------------------------------------------------
(* The state in which nothing has been called yet *)

NoOp == [op |-> "none", x |-> 0, y |-> 0, self |-> None,
         ok |-> TRUE, panicked |-> FALSE, out |-> None]

CoordIdle ==
    /\ pt = None
    /\ last = NoOp

NoCall == [op |-> "none", done |-> TRUE]

CallIdle == call = NoCall

FireIdle ==
    /\ f_pc = "idle"
    /\ f_timeout = U64(0)
    /\ f_timeout0 = 0
    /\ f_wait = 0
    /\ f_before = BaseFrame
    /\ f_after = BaseFrame
    /\ f_now = 0
    /\ f_polls = 0
    /\ f_wrapped = FALSE
    /\ f_result = "none"
    /\ ui_change_at = Never
    /\ ui_change_px = 1
    /\ f_error = None

\* The screen inside the check-zone: an unrelated content that may change
\* at any time, and the input events whose effect is visible.
QuietScreen == [ambient |-> 0, effects |-> {}]

VerbIdle ==
    /\ v_verb = "Click"
    /\ v_submit = FALSE
    /\ v_timeout = 0
    /\ v_zone_fits = TRUE
    /\ v_pc = "idle"
    /\ v_step = 0
    /\ v_events = <<>>
    /\ v_before = None
    /\ v_precheck = "none"
    /\ v_result = "none"
    /\ screen = QuietScreen
    /\ ambient_left = 0
    /\ c_state = "idle"
    /\ c_is_same = TRUE
    /\ c_ref = QuietScreen
    /\ c_now = 0
    /\ c_deadline = 0

-----------------------------------------------------------------------------
(* src/nav/coordinate.rs *)

\* A mutant of Coordinate_new: the branch that clamps to 0 is lost.
Coordinate_new_Unclamped(val) ==
    FDiv(val, scale)

\* Coordinate::new: a positive value is divided by screen::scale(), anything
\* else becomes 0.0.
Coordinate_new(val) ==
    IF RGt(val, Zero)
    THEN FDiv(val, scale)
    ELSE Zero

\* A mutant of ScreenCoordinates_new: only the x axis is checked.
ScreenCoordinates_new_XOnly(x, y) ==
    The({IF RGt(coord_x, FromInt(ScreenWidth))
         THEN [ok |-> FALSE, point |-> None]
         ELSE [ok |-> TRUE, point |-> Some([x |-> coord_x, y |-> coord_y])] :
            coord_x \in {Coordinate_new(x)}, coord_y \in {Coordinate_new(y)}})

\* A mutant of ScreenCoordinates_new: the bounds check is lost.
ScreenCoordinates_new_Unchecked(x, y) ==
    The({[ok |-> TRUE, point |-> Some([x |-> coord_x, y |-> coord_y])] :
            coord_x \in {Coordinate_new(x)}, coord_y \in {Coordinate_new(y)}})

\* ScreenCoordinates::new of coordinate.rs: Err(ScreenCoordinateError) when a
\* converted axis is greater than the screen extent, else Ok(point).
ScreenCoordinates_new(x, y) ==
    LET width == FromInt(ScreenWidth)
        height == FromInt(ScreenHeight)
    IN  The({IF RGt(coord_x, width) \/ RGt(coord_y, height)
             THEN [ok |-> FALSE, point |-> None]
             ELSE [ok |-> TRUE, point |-> Some([x |-> coord_x, y |-> coord_y])] :
                coord_x \in {Coordinate_new(x)}, coord_y \in {Coordinate_new(y)}})

\* ScreenCoordinates::shift: the sums are handed to ScreenCoordinates::new;
\* map_err only rewrites the message.
ScreenCoordinates_shift(self, x, y) ==
    The({ScreenCoordinates_new(new_x, new_y) :
            new_x \in {FAdd(self.x, x)}, new_y \in {FAdd(self.y, y)}})

\* From<geometry::Point> for ScreenCoordinates: new(..).expect(..), which
\* panics on Err.
From_Point(point) ==
    The({[ok |-> r.ok, panicked |-> ~r.ok, point |-> r.point] :
            r \in {ScreenCoordinates_new(point.x, point.y)}})

\* `v as u64` for an f64 v below 2^31: the fraction is dropped and a
\* negative value saturates to 0.
F64AsU64(v) == IF v[1] <= 0 THEN 0 ELSE v[1] \div v[2]

\* A mutant of ScreenRect_new: the size is not truncated to the screen.
ScreenRect_new_Untruncated(x, y, width, height) ==
    The({[panicked |-> FALSE,
          rect |-> Some([x |-> coord_x, y |-> coord_y,
                         width |-> FromInt(F64AsU64(width)),
                         height |-> FromInt(F64AsU64(height))])] :
            coord_x \in {Coordinate_new(x)}, coord_y \in {Coordinate_new(y)}})

\* ScreenRect::new: x and y go through Coordinate::new, the size is cut to
\* what is left of the screen right of and below the origin.  The u64
\* subtraction `size as u64 - coord.val as u64` overflows when the origin is
\* beyond the extent: a build with overflow checks panics; without them the
\* difference wraps to at least 2^64 - 2^31, which is more than any size
\* below 2^32, so min() returns the size as given.
ScreenRect_new(x, y, width, height) ==
    The({LET left_x == F64AsU64(coord_x)
             left_y == F64AsU64(coord_y)
             overflow_x == left_x > ScreenWidth
             overflow_y == left_y > ScreenHeight
             w == IF overflow_x THEN F64AsU64(width)
                  ELSE Min(F64AsU64(width), ScreenWidth - left_x)
             h == IF overflow_y THEN F64AsU64(height)
                  ELSE Min(F64AsU64(height), ScreenHeight - left_y)
         IN  IF overflow_checks /\ (overflow_x \/ overflow_y)
             THEN [panicked |-> TRUE, rect |-> None]
             ELSE [panicked |-> FALSE,
                   rect |-> Some([x |-> coord_x, y |-> coord_y,
                                  width |-> FromInt(w), height |-> FromInt(h)])] :
            coord_x \in {Coordinate_new(x)}, coord_y \in {Coordinate_new(y)}})

\* Default for ScreenRect
ScreenRect_default ==
    ScreenRect_new(Zero, Zero, FromInt(ScreenWidth), FromInt(ScreenHeight))

\* From<core::Rect> for ScreenRect: rect is <<x, y, width, height>> in i32
From_core_Rect(rect) ==
    ScreenRect_new(FromInt(rect[1]), FromInt(rect[2]),
                   FromInt(rect[3]), FromInt(rect[4]))

Anchors == {"TopLeft", "TopRight", "BottomLeft", "BottomRight", "Center"}

\* The match of generate_rect (the same in coordinate.rs and location.rs):
\* the origin and the size of the rectangle, in i32.  With an anchor on the
\* screen and the sizes of the model every intermediate value fits an i32.
generate_rect_match(x, y, width, height, anchor) ==
    LET max_width == ScreenWidth
        max_height == ScreenHeight
    IN  CASE anchor = "TopLeft" ->
                [rx |-> x, ry |-> y,
                 rw |-> Min(width, max_width - x),
                 rh |-> Min(height, max_height - y)]
          [] anchor = "TopRight" ->
                LET rw == Min(width, x)
                    rh == Min(height, max_height - y)
                IN  [rx |-> x - rw, ry |-> y, rw |-> rw, rh |-> rh]
          [] anchor = "BottomLeft" ->
                LET rw == Min(width, max_width - x)
                    rh == Min(height, y)
                IN  [rx |-> x, ry |-> y - rh, rw |-> rw, rh |-> rh]
          [] anchor = "BottomRight" ->
                LET rw == Min(width, x)
                    rh == Min(height, y)
                IN  [rx |-> x - rw, ry |-> y - rh, rw |-> rw, rh |-> rh]
          [] anchor = "Center" ->
                LET rw == Min(width, Min(x, max_width - x))
                    rh == Min(height, Min(y, max_height - y))
                IN  [rx |-> x - I32Div(rw, 2), ry |-> y - I32Div(rh, 2),
                     rw |-> rw, rh |-> rh]

\* ScreenCoordinates::generate_rect of coordinate.rs: self is the point, width
\* and height are u64.
ScreenCoordinates_generate_rect(self, width, height, anchor) ==
    The({ScreenRect_new(FromInt(m.rx), FromInt(m.ry),
                        FromInt(m.rw), FromInt(m.rh)) :
            m \in {generate_rect_match(AsI32(self.x), AsI32(self.y),
                                       U64AsI32(width), U64AsI32(height),
                                       anchor)}})

-----------------------------------------------------------------------------
(* src/utils.rs *)

\* One axis of convert_aprect_to_ocvrect: a value in scaled units is
\* multiplied by the scale factor and cast to i32.
ToPhysical(v) == AsI32(FMul(v, scale))

-----------------------------------------------------------------------------
(* src/nav/location.rs *)

U16_MAX == 65535

\* TryInto<u16>
TryIntoU16(v) == [ok |-> v >= 0 /\ v <= U16_MAX, val |-> v]

\* ScreenCoordinates::new of location.rs: the inputs are converted with
\* try_into::<u16>(), a failed conversion is a ScreenCoordinateError.
Location_ScreenCoordinates_new(x, y) ==
    LET width == ScreenWidth
        height == ScreenHeight
        tx == TryIntoU16(x)
        ty == TryIntoU16(y)
    IN  IF ~tx.ok \/ ~ty.ok
        THEN [ok |-> FALSE, point |-> None]
        ELSE IF tx.val > width \/ ty.val > height
             THEN [ok |-> FALSE, point |-> None]
             ELSE [ok |-> TRUE,
                   point |-> Some([x |-> FromInt(tx.val), y |-> FromInt(ty.val)])]

\* ScreenCoordinates::generate_rect of location.rs: the point is an
\* opencv Point of i32, the result an autopilot Rect.
Location_generate_rect(self, width, height, anchor) ==
    The({[panicked |-> FALSE,
          rect |-> Some([x |-> FromInt(m.rx), y |-> FromInt(m.ry),
                         width |-> FromInt(m.rw), height |-> FromInt(m.rh)])] :
            m \in {generate_rect_match(AsI32(self.x), AsI32(self.y),
                                       U64AsI32(width), U64AsI32(height),
                                       anchor)}})

-----------------------------------------------------------------------------
(* The coordinate operations as a state machine *)

Scales == {Rat(k, 4) : k \in 4..MaxScaleQuarters}

\* The largest integer raw value that the scale factor converts to a value
\* within the extent.
MaxRaw(extent) == (scale[1] * extent) \div scale[2]

\* Raw inputs: from one below 0 to one beyond the largest raw value that the
\* scale factor still converts to a point on the screen.
RawXs == (0 - 1)..(MaxRaw(ScreenWidth) + 1)

RawYs == (0 - 1)..(MaxRaw(ScreenHeight) + 1)

\* The corners of a geometry::Point handed to From, and their neighbours
\* off the screen.
PointXs == {0 - 1, 0, MaxRaw(ScreenWidth), MaxRaw(ScreenWidth) + 1}

PointYs == {0 - 1, 0, MaxRaw(ScreenHeight), MaxRaw(ScreenHeight) + 1}

\* The integer inputs of nav::location, which knows no scale factor.
LocXs == {0 - 1, 0, ScreenWidth, ScreenWidth + 1}

LocYs == {0 - 1, 0, ScreenHeight, ScreenHeight + 1}

\* Shifts: none, one unit to the right, and far enough to leave the screen
\* from any point of it.
DeltaXs == {0 - ScreenWidth - 1, 0, 1, ScreenWidth + 1}

DeltaYs == {0 - ScreenHeight - 1, 0, ScreenHeight + 1}

InitCoord ==
    /\ scale \in Scales
    /\ overflow_checks = FALSE
    /\ CoordIdle
    /\ FireIdle
    /\ VerbIdle
    /\ CallIdle

\* let p = ScreenCoordinates::new(x, y)
New(x, y) ==
    \E r \in {ScreenCoordinates_new(FromInt(x), FromInt(y))} :
        /\ last' = [op |-> "new", x |-> x, y |-> y, self |-> None,
                    ok |-> r.ok, panicked |-> FALSE, out |-> r.point]
        /\ pt' = r.point
        /\ UNCHANGED scale
        /\ UNCHANGED <<fireVars, verbVars, callVars>>

\* nav::location::ScreenCoordinates::new(x, y)
LocationNew(x, y) ==
    \E r \in {Location_ScreenCoordinates_new(x, y)} :
        /\ last' = [op |-> "location_new", x |-> x, y |-> y, self |-> None,
                    ok |-> r.ok, panicked |-> FALSE, out |-> r.point]
        /\ UNCHANGED <<scale, pt>>
        /\ UNCHANGED <<fireVars, verbVars, callVars>>

\* p.shift(dx, dy): takes &self, so p is as before
Shift(dx, dy) ==
    /\ pt # None
    /\ \E r \in {ScreenCoordinates_shift(pt[1], FromInt(dx), FromInt(dy))} :
           last' = [op |-> "shift", x |-> dx, y |-> dy, self |-> pt,
                    ok |-> r.ok, panicked |-> FALSE, out |-> r.point]
    /\ UNCHANGED <<scale, pt>>
    /\ UNCHANGED <<fireVars, verbVars, callVars>>

\* let p: ScreenCoordinates = geometry::Point::new(x, y).into()
FromPoint(x, y) ==
    \E r \in {From_Point([x |-> FromInt(x), y |-> FromInt(y)])} :
        /\ last' = [op |-> "from", x |-> x, y |-> y, self |-> None,
                    ok |-> r.ok, panicked |-> r.panicked, out |-> r.point]
        /\ pt' = r.point
        /\ UNCHANGED scale
        /\ UNCHANGED <<fireVars, verbVars, callVars>>

NextCoord ==
    \/ \E x \in RawXs, y \in RawYs : New(x, y)
    \/ \E x \in LocXs, y \in LocYs : LocationNew(x, y)
    \/ \E dx \in DeltaXs, dy \in DeltaYs : Shift(dx, dy)
    \/ \E x \in PointXs, y \in PointYs : FromPoint(x, y)

SpecCoord == InitCoord /\ [][NextCoord]_vars

-----------------------------------------------------------------------------
(* The rectangle operations: a call is drawn with its arguments, then made *)

\* A u64 size whose low 32 bits are a negative i32.
HugeSize == U64Below2Pow32(16 * ScreenWidth)

\* Requested sizes: one unit, the screen extent, beyond it, and huge.
RectWidths == {U64(1), U64(ScreenWidth), U64(ScreenWidth + 1), HugeSize}

RectHeights == {U64(1), U64(ScreenHeight), U64(ScreenHeight + 1), HugeSize}

\* The f64 and i32 sizes handed to ScreenRect::new and to From<core::Rect>.
NewWidths == {0 - 1, 0, 1, ScreenWidth + 1}

NewHeights == {0 - 1, 0, 1, ScreenHeight + 1}

\* p.generate_rect(width, height, anchor) for p = ScreenCoordinates::new(x, y)
GenerateRectCalls ==
    [op : {"generate_rect"}, done : {FALSE},
     x : 0..MaxRaw(ScreenWidth), y : 0..MaxRaw(ScreenHeight),
     width : RectWidths, height : RectHeights, anchor : Anchors]

\* the same for the ScreenCoordinates of nav::location
LocationGenerateRectCalls ==
    [op : {"location_generate_rect"}, done : {FALSE},
     x : 0..ScreenWidth, y : 0..ScreenHeight,
     width : RectWidths, height : RectHeights, anchor : Anchors]

\* ScreenRect::new(x, y, width, height)
RectNewCalls ==
    [op : {"rect_new"}, done : {FALSE},
     x : RawXs, y : RawYs, width : NewWidths, height : NewHeights]

\* ScreenRect::from(core::Rect::new(x, y, width, height))
RectFromCoreCalls ==
    [op : {"rect_from_core"}, done : {FALSE},
     x : PointXs, y : PointYs, width : NewWidths, height : NewHeights]

\* ScreenRect::default()
RectDefaultCalls == {[op |-> "rect_default", done |-> FALSE]}

InitRect ==
    /\ scale \in Scales
    /\ overflow_checks \in BOOLEAN
    /\ CoordIdle
    /\ FireIdle
    /\ VerbIdle
    /\ call \in GenerateRectCalls \cup LocationGenerateRectCalls
                  \cup RectNewCalls \cup RectFromCoreCalls
                  \cup RectDefaultCalls

\* The call returns r, or panics.
Returns(r) ==
    /\ call' = [op |-> call.op, done |-> TRUE, args |-> call,
                panicked |-> r.panicked, rect |-> r.rect]
    /\ UNCHANGED <<coordVars, fireVars, verbVars>>

GenerateRect ==
    /\ call.op = "generate_rect"
    /\ ~call.done
    /\ \E p \in {ScreenCoordinates_new(FromInt(call.x), FromInt(call.y))} :
          /\ p.ok
          /\ Returns(ScreenCoordinates_generate_rect(
                         p.point[1], call.width, call.height, call.anchor))

LocationGenerateRect ==
    /\ call.op = "location_generate_rect"
    /\ ~call.done
    /\ \E p \in {Location_ScreenCoordinates_new(call.x, call.y)} :
          /\ p.ok
          /\ Returns(Location_generate_rect(
                         p.point[1], call.width, call.height, call.anchor))

RectNew ==
    /\ call.op = "rect_new"
    /\ ~call.done
    /\ Returns(ScreenRect_new(FromInt(call.x), FromInt(call.y),
                              FromInt(call.width), FromInt(call.height)))

RectFromCore ==
    /\ call.op = "rect_from_core"
    /\ ~call.done
    /\ Returns(From_core_Rect(<<call.x, call.y, call.width, call.height>>))

RectDefault ==
    /\ call.op = "rect_default"
    /\ ~call.done
    /\ Returns(ScreenRect_default)

NextRect ==
    \/ GenerateRect
    \/ LocationGenerateRect
    \/ RectNew
    \/ RectFromCore
    \/ RectDefault

SpecRect == InitRect /\ [][NextRect]_vars

-----------------------------------------------------------------------------
(* src/verb/action.rs *)

\* imgproc::cvt_color(.., COLOR_BGR2GRAY): OpenCV's 14-bit fixed-point weights
\* of B, G and R, rounded.
BGR2GRAY(px) == (px[1] * 1868 + px[2] * 9617 + px[3] * 4899 + 8192) \div 16384

\* CheckUIState::changed_ui_state with roi_mat = None: both frames are
\* converted to grayscale, compared with CMP_NE, and the non-zero elements of
\* the difference are counted.
changed_ui_state(before, after) ==
    LET diff == {i \in 1..NPixels : BGR2GRAY(before[i]) # BGR2GRAY(after[i])}
        non_zero == Cardinality(diff)
    IN  non_zero > 0

\* A pixel that is not black and has the gray value of black.
DarkBlue == <<1, 0, 0>>

\* A Mat of cols x rows BGR pixels, black but for the positions in white.
Mat(cols, rows, white) ==
    [cols |-> cols, rows |-> rows, white |-> white, blue |-> {}]

\* The Mat m with the positions in blue, where it is black, made dark blue.
Painted(m, blue) == [m EXCEPT !.blue = blue \ m.white]

PixelAt(m, pos) ==
    IF pos \in m.white THEN White
    ELSE IF pos \in m.blue THEN DarkBlue
    ELSE Black

\* The positions of a set that lie inside rect, relative to its origin.
Within(positions, rect) ==
    {<<pos[1] - rect.x, pos[2] - rect.y>> :
        pos \in {q \in positions :
                    /\ q[1] > rect.x /\ q[1] <= rect.x + rect.width
                    /\ q[2] > rect.y /\ q[2] <= rect.y + rect.height}}

\* Mat::roi(m, rect): the part of m inside rect, or None (an opencv::Error)
\* when rect does not lie within m.
Mat_roi(m, rect) ==
    IF /\ rect.x >= 0 /\ rect.y >= 0
       /\ rect.x + rect.width <= m.cols
       /\ rect.y + rect.height <= m.rows
    THEN Some([cols |-> rect.width, rows |-> rect.height,
               white |-> Within(m.white, rect), blue |-> Within(m.blue, rect)])
    ELSE None

\* The end of changed_ui_state: cvt_color, core::compare with CMP_NE, which
\* fails on Mats of different sizes, and count_non_zero.
compare_frames(compare_before, compare_after) ==
    IF compare_before.cols # compare_after.cols
           \/ compare_before.rows # compare_after.rows
    THEN [kind |-> "err", value |-> None, err |-> Some("opencv::Error")]
    ELSE LET diff == {pos \in (1..compare_before.cols)
                                  \X (1..compare_before.rows) :
                         BGR2GRAY(PixelAt(compare_before, pos))
                             # BGR2GRAY(PixelAt(compare_after, pos))}
             non_zero == Cardinality(diff)
         IN  [kind |-> "ok", value |-> Some(non_zero > 0), err |-> None]

\* CheckUIState::changed_ui_state(before, after, roi_mat).  roi_mat is None
\* or Some of a mask of cols x rows elements whose non-zero elements have
\* the bounding rectangle non_zero_rect.
changed_ui_state_roi(before, after, roi_mat) ==
    IF roi_mat # None
    THEN IF roi_mat[1].cols > before.cols \/ roi_mat[1].rows > before.rows
         THEN [kind |-> "err", value |-> None,
               err |-> Some("OutOfBoundsError")]
         ELSE LET non_zero_rect == roi_mat[1].non_zero_rect
                  compare_before == Mat_roi(before, non_zero_rect)
                  compare_after == Mat_roi(after, non_zero_rect)
              IN  IF compare_before = None \/ compare_after = None
                  THEN [kind |-> "err", value |-> None,
                        err |-> Some("opencv::Error")]
                  ELSE compare_frames(compare_before[1], compare_after[1])
    ELSE compare_frames(before, after)

\* define_error!: an error is a struct with the one field `message`.
define_error(error_name, message) == [name |-> error_name, message |-> message]

UIActionTimeOutError(message) == define_error("UIActionTimeOutError", message)

DefaultTimeout == 1000

DefaultWaitDuration == 100

Decrement == 100

\* Option<u64>::unwrap_or
UnwrapOr(opt, default) == IF opt = None THEN default ELSE opt[1]

\* The timeouts and poll intervals fire is called with, and what one capture
\* and comparison may cost, in ms.
Timeouts == {None, Some(50), Some(100), Some(150), Some(200), Some(300)}

WaitDurations == {None, Some(50), Some(200), Some(300)}

PollCosts == {0, 50}

ChangeTimes == {Never, 50, 150, 250, 950}

InitFire ==
    /\ overflow_checks \in BOOLEAN
    /\ scale = FromInt(1)
    /\ CoordIdle
    /\ FireIdle
    /\ VerbIdle
    /\ CallIdle

\* fire(timeout, wait_duration) up to the loop: the defaults are applied and
\* execute() performs the action and returns the frame before it. The clock
\* of the model starts when execute() returns; the action's effect shows on
\* the screen from change_at on.
FireStart(timeout, wait_duration, change_at, change_px) ==
    /\ f_pc = "idle"
    /\ f_timeout0' = UnwrapOr(timeout, DefaultTimeout)
    /\ f_timeout' = U64(UnwrapOr(timeout, DefaultTimeout))
    /\ f_wait' = UnwrapOr(wait_duration, DefaultWaitDuration)
    /\ ui_change_at' = change_at
    /\ ui_change_px' = change_px
    /\ f_before' = BaseFrame
    /\ f_pc' = "loop"
    /\ UNCHANGED <<overflow_checks, f_after, f_now, f_polls, f_wrapped, f_result,
                   f_error>>
    /\ UNCHANGED <<coordVars, verbVars, callVars>>

\* let before = self.execute()?  -- execute() failed
FireExecuteErr ==
    /\ f_pc = "idle"
    /\ f_pc' = "done"
    /\ f_result' = "error"
    /\ UNCHANGED <<overflow_checks, f_timeout, f_timeout0, f_wait, f_before,
                   f_after, f_now, f_polls, f_wrapped, ui_change_at,
                   ui_change_px, f_error>>
    /\ UNCHANGED <<coordVars, verbVars, callVars>>

\* while timeout > 0 { thread::sleep(wait_duration)
FireSleep ==
    /\ f_pc = "loop"
    /\ ~U64IsZero(f_timeout)
    /\ f_polls < MaxPolls
    /\ f_now' = f_now + f_wait
    /\ f_pc' = "poll"
    /\ UNCHANGED <<overflow_checks, f_timeout, f_timeout0, f_wait, f_before,
                   f_after, f_polls, f_wrapped, f_result, ui_change_at,
                   ui_change_px, f_error>>
    /\ UNCHANGED <<coordVars, verbVars, callVars>>

\* A mutant of FirePoll: a changed frame does not end the loop.
FirePoll_KeepsPolling(cost) ==
    /\ f_pc = "poll"
    /\ f_after' = ScreenAt(f_now)
    /\ f_now' = f_now + cost
    /\ f_polls' = f_polls + 1
    /\ IF changed_ui_state(f_before, f_after')
       THEN /\ f_pc' = "loop"
            /\ f_result' = "ok"
            /\ UNCHANGED <<f_timeout, f_wrapped>>
       ELSE LET d == U64Sub(f_timeout, Decrement)
            IN  IF d.overflow /\ overflow_checks
                THEN /\ f_pc' = "done"
                     /\ f_result' = "panic"
                     /\ UNCHANGED <<f_timeout, f_wrapped>>
                ELSE /\ f_pc' = "loop"
                     /\ f_timeout' = d.val
                     /\ f_wrapped' = (f_wrapped \/ d.overflow)
                     /\ f_result' = f_result
    /\ UNCHANGED <<overflow_checks, f_timeout0, f_wait, f_before, ui_change_at,
                   ui_change_px, f_error>>
    /\ UNCHANGED <<coordVars, verbVars, callVars>>

\* after = self.get_screenshot()?; if self.changed_ui_state(&before, &after,
\* None)? { return Ok(()) }; timeout -= 100 }
\* The subtraction panics on overflow in a build with overflow checks and
\* wraps around in one without.
FirePoll(cost) ==
    /\ f_pc = "poll"
    /\ f_after' = ScreenAt(f_now)
    /\ f_now' = f_now + cost
    /\ f_polls' = f_polls + 1
    /\ IF changed_ui_state(f_before, f_after')
       THEN /\ f_pc' = "done"
            /\ f_result' = "ok"
            /\ UNCHANGED <<f_timeout, f_wrapped>>
       ELSE LET d == U64Sub(f_timeout, Decrement)
            IN  IF d.overflow /\ overflow_checks
                THEN /\ f_pc' = "done"
                     /\ f_result' = "panic"
                     /\ UNCHANGED <<f_timeout, f_wrapped>>
                ELSE /\ f_pc' = "loop"
                     /\ f_timeout' = d.val
                     /\ f_wrapped' = (f_wrapped \/ d.overflow)
                     /\ f_result' = f_result
    /\ UNCHANGED <<overflow_checks, f_timeout0, f_wait, f_before, ui_change_at,
                   ui_change_px, f_error>>
    /\ UNCHANGED <<coordVars, verbVars, callVars>>

\* self.get_screenshot()? -- capture_screen() failed
FireCaptureErr ==
    /\ f_pc = "poll"
    /\ f_pc' = "done"
    /\ f_result' = "error"
    /\ UNCHANGED <<overflow_checks, f_timeout, f_timeout0, f_wait, f_before,
                   f_after, f_now, f_polls, f_wrapped, ui_change_at,
                   ui_change_px, f_error>>
    /\ UNCHANGED <<coordVars, verbVars, callVars>>

\* the loop is left: return Err(UIActionTimeOutError)
FireTimeOut ==
    /\ f_pc = "loop"
    /\ U64IsZero(f_timeout)
    /\ f_pc' = "done"
    /\ f_result' = "timeout"
    /\ f_error' = Some(UIActionTimeOutError("UI action timed out"))
    /\ UNCHANGED <<overflow_checks, f_timeout, f_timeout0, f_wait, f_before,
                   f_after, f_now, f_polls, f_wrapped, ui_change_at,
                   ui_change_px>>
    /\ UNCHANGED <<coordVars, verbVars, callVars>>

NextFire ==
    \/ \E t \in Timeouts, w \in WaitDurations, c \in ChangeTimes,
          px \in 1..NPixels : FireStart(t, w, c, px)
    \/ FireExecuteErr
    \/ FireSleep
    \/ \E cost \in PollCosts : FirePoll(cost)
    \/ FireCaptureErr
    \/ FireTimeOut

SpecFire == InitFire /\ [][NextFire]_vars

-----------------------------------------------------------------------------
(* The Verification Engine that Click::fire and Input::fire call as          *)
(* self.check_ui_state(timeout, is_same, before, check_zone)                 *)

CheckPollInterval == 100

\* Entry to Awaiting: the deadline is now + timeout; without a reference
\* frame the screen as it is on entry is the reference.
CheckStart(timeout, is_same, before) ==
    /\ c_state' = "awaiting"
    /\ c_is_same' = is_same
    /\ c_ref' = IF before = None THEN screen ELSE before[1]
    /\ c_deadline' = c_now + timeout

\* One poll tick, after the fixed sleep: the current frame is captured and
\* cropped to the check-zone with the reference (BoundsError if the check-zone
\* exceeds the frame) and compared; the engine succeeds at once if
\* (frames are the same) = is_same, and times out once the deadline has passed.
CheckTick ==
    /\ c_state = "awaiting"
    /\ c_now' = c_now + CheckPollInterval
    /\ c_state' = IF ~v_zone_fits THEN "bounds"
                  ELSE IF (screen = c_ref) = c_is_same THEN "ok"
                  ELSE IF c_now' >= c_deadline THEN "timeout"
                  ELSE "awaiting"
    /\ UNCHANGED <<v_verb, v_submit, v_timeout, v_zone_fits, v_pc, v_step,
                   v_events, v_before, v_precheck, v_result, screen,
                   ambient_left, c_is_same, c_ref, c_deadline>>
    /\ UNCHANGED <<coordVars, fireVars, callVars>>

-----------------------------------------------------------------------------
(* src/verb/click.rs, src/verb/input.rs *)

ClickDefaultTimeout == 500

InputDefaultTimeout == 5000

\* Click::execute, as the primitives it calls in order: mouse::move_to(..)?,
\* bitmap::capture_screen_portion(check_zone)?, mouse::click(button, None).
Click_execute == <<"move_to", "capture", "click">>

\* Input::execute: mouse::move_to(..)?, mouse::click(Button::Left, None),
\* bitmap::capture_screen()?, key::type_string(..) and, if submit,
\* key::tap(Return).
Input_execute ==
    <<"move_to", "click", "capture", "type_string">>
        \o (IF v_submit THEN <<"tap">> ELSE <<>>)

execute == IF v_verb = "Click" THEN Click_execute ELSE Input_execute

\* The primitives that return a Result, which execute() propagates with `?`.
Fallible == {"move_to", "capture"}

\* The primitives that inject a click or a key event.
InputEvents == {"click", "type_string", "tap"}

VerbTimeouts == {None, Some(CheckPollInterval), Some(2 * CheckPollInterval)}

\* fire(timeout) up to the first call of check_ui_state:
\* self.check_ui_state(timeout, true, None, Some(self.check_zone))
VerbFire(verb, submit, timeout, zone_fits, ambient) ==
    /\ v_pc = "idle"
    /\ v_verb' = verb
    /\ v_submit' = submit
    /\ v_timeout' = UnwrapOr(timeout, IF verb = "Click" THEN ClickDefaultTimeout
                                                       ELSE InputDefaultTimeout)
    /\ v_zone_fits' = zone_fits
    /\ ambient_left' = ambient
    /\ v_pc' = "precheck"
    /\ CheckStart(v_timeout', TRUE, None)
    /\ UNCHANGED <<v_step, v_events, v_before, v_precheck, v_result, screen, c_now>>
    /\ UNCHANGED <<coordVars, fireVars, callVars>>

\* A mutant of VerbPrecheckReturned: the `?` is lost, execute() is called
\* whatever the pre-check returned.
VerbPrecheckReturned_Ignored ==
    /\ v_pc = "precheck"
    /\ c_state \in {"ok", "timeout", "bounds"}
    /\ v_precheck' = c_state
    /\ v_pc' = "execute"
    /\ c_state' = "idle"
    /\ UNCHANGED <<v_verb, v_submit, v_timeout, v_zone_fits, v_step, v_events,
                   v_before, v_result, screen, ambient_left, c_is_same, c_ref,
                   c_now, c_deadline>>
    /\ UNCHANGED <<coordVars, fireVars, callVars>>

\* self.check_ui_state(..)?;  -- an Err is returned from fire, after an Ok
\* fire goes on to execute()
VerbPrecheckReturned ==
    /\ v_pc = "precheck"
    /\ c_state \in {"ok", "timeout", "bounds"}
    /\ v_precheck' = c_state
    /\ IF c_state = "ok"
       THEN /\ v_pc' = "execute"
            /\ v_result' = v_result
       ELSE /\ v_pc' = "done"
            /\ v_result' = c_state
    /\ c_state' = "idle"
    /\ UNCHANGED <<v_verb, v_submit, v_timeout, v_zone_fits, v_step, v_events,
                   v_before, screen, ambient_left, c_is_same, c_ref, c_now,
                   c_deadline>>
    /\ UNCHANGED <<coordVars, fireVars, callVars>>

\* The next primitive of execute(): a fallible one that fails ends execute()
\* and fire with its error, a capture takes the frame that execute() returns.
VerbExecuteStep(ok) ==
    /\ v_pc = "execute"
    /\ v_step < Len(execute)
    /\ LET prim == execute[v_step + 1]
       IN  /\ ok \/ prim \in Fallible
           /\ IF ok
              THEN /\ v_events' = Append(v_events, prim)
                   /\ v_step' = v_step + 1
                   /\ v_before' = IF prim = "capture" THEN Some(screen) ELSE v_before
                   /\ UNCHANGED <<v_pc, v_result>>
              ELSE /\ v_pc' = "done"
                   /\ v_result' = "error"
                   /\ UNCHANGED <<v_events, v_step, v_before>>
    /\ UNCHANGED <<v_verb, v_submit, v_timeout, v_zone_fits, v_precheck, screen,
                   ambient_left, c_state, c_is_same, c_ref, c_now, c_deadline>>
    /\ UNCHANGED <<coordVars, fireVars, callVars>>

\* let before = self.execute()?;
\* self.check_ui_state(timeout, false, Some(before), Some(self.check_zone))
VerbVerify ==
    /\ v_pc = "execute"
    /\ v_step = Len(execute)
    /\ v_pc' = "verify"
    /\ CheckStart(v_timeout, FALSE, v_before)
    /\ UNCHANGED <<v_verb, v_submit, v_timeout, v_zone_fits, v_step, v_events,
                   v_before, v_precheck, v_result, screen, ambient_left, c_now>>
    /\ UNCHANGED <<coordVars, fireVars, callVars>>

\* A mutant of VerbReturn: after a timeout of the verification fire calls
\* execute() once more.
VerbReturn_Retried ==
    /\ v_pc = "verify"
    /\ c_state \in {"ok", "timeout", "bounds"}
    /\ IF c_state = "timeout" /\ Len(v_events) <= Len(execute)
       THEN /\ v_pc' = "execute"
            /\ v_step' = 0
            /\ v_result' = v_result
       ELSE /\ v_pc' = "done"
            /\ v_step' = v_step
            /\ v_result' = c_state
    /\ c_state' = "idle"
    /\ UNCHANGED <<v_verb, v_submit, v_timeout, v_zone_fits, v_events,
                   v_before, v_precheck, screen, ambient_left, c_is_same, c_ref,
                   c_now, c_deadline>>
    /\ UNCHANGED <<coordVars, fireVars, callVars>>

\* return self.check_ui_state(..)
VerbReturn ==
    /\ v_pc = "verify"
    /\ c_state \in {"ok", "timeout", "bounds"}
    /\ v_pc' = "done"
    /\ v_result' = c_state
    /\ c_state' = "idle"
    /\ UNCHANGED <<v_verb, v_submit, v_timeout, v_zone_fits, v_step, v_events,
                   v_before, v_precheck, screen, ambient_left, c_is_same, c_ref,
                   c_now, c_deadline>>
    /\ UNCHANGED <<coordVars, fireVars, callVars>>

\* The interface reacts to an injected click or key event: its effect shows
\* inside the check-zone.
EffectShows(e) ==
    /\ v_pc \in {"execute", "verify"}
    /\ \E i \in 1..Len(v_events) : v_events[i] = e
    /\ e \notin screen.effects
    /\ screen' = [screen EXCEPT !.effects = @ \cup {e}]
    /\ UNCHANGED <<v_verb, v_submit, v_timeout, v_zone_fits, v_pc, v_step,
                   v_events, v_before, v_precheck, v_result, ambient_left,
                   c_state, c_is_same, c_ref, c_now, c_deadline>>
    /\ UNCHANGED <<coordVars, fireVars, callVars>>

\* Something unrelated changes inside the check-zone.
AmbientChange ==
    /\ v_pc \in {"precheck", "execute", "verify"}
    /\ ambient_left > 0
    /\ ambient_left' = ambient_left - 1
    /\ screen' = [screen EXCEPT !.ambient = 1 - @]
    /\ UNCHANGED <<v_verb, v_submit, v_timeout, v_zone_fits, v_pc, v_step,
                   v_events, v_before, v_precheck, v_result, c_state, c_is_same,
                   c_ref, c_now, c_deadline>>
    /\ UNCHANGED <<coordVars, fireVars, callVars>>

InitVerb ==
    /\ scale = FromInt(1)
    /\ overflow_checks = FALSE
    /\ CoordIdle
    /\ FireIdle
    /\ VerbIdle
    /\ CallIdle

NextVerb ==
    \/ \E verb \in {"Click", "Input"}, submit \in BOOLEAN, t \in VerbTimeouts,
          fits \in BOOLEAN, ambient \in 0..MaxAmbient :
            VerbFire(verb, submit, t, fits, ambient)
    \/ CheckTick
    \/ VerbPrecheckReturned
    \/ \E ok \in BOOLEAN : VerbExecuteStep(ok)
    \/ VerbVerify
    \/ VerbReturn
    \/ \E e \in InputEvents : EffectShows(e)
    \/ AmbientChange

SpecVerb == InitVerb /\ [][NextVerb]_vars

-----------------------------------------------------------------------------
(* src/nav/strategy.rs and the LocationStrategy of src/nav/location.rs *)

\* What get_location does: it returns Ok(point), returns Err(err), or panics.
Ok(point) == [kind |-> "ok", point |-> Some(point), err |-> None]

Err(err) == [kind |-> "err", point |-> None, err |-> Some(err)]

Panic == [kind |-> "panic", point |-> None, err |-> None]

\* TemplateMatchingStrategy::get_location.  The calls into autopilot and
\* OpenCV (capture_screen, Mat::roi, imread, resize, match_template,
\* min_max_loc) succeed or not (io_ok), each failure leaving through `?`;
\* min_max_loc reports the top-left corner match_location of the best match,
\* whatever its score, and the result is
\* ScreenCoordinates::new(match_location.x, match_location.y)?.
TemplateMatchingStrategy_get_location(io_ok, match_location) ==
    IF ~io_ok
    THEN Err("opencv::Error")
    ELSE The({IF r.ok THEN Ok(r.point[1]) ELSE Err("ScreenCoordinateError") :
                r \in {ScreenCoordinates_new(FromInt(match_location.x),
                                             FromInt(match_location.y))}})

\* ImageTemplate::get_location of location.rs: half the template size is
\* added to the top-left corner and to the origin of the search region.
ImageTemplate_get_location(search_region, io_ok, match_location, template) ==
    IF ~io_ok
    THEN Err("opencv::Error")
    ELSE LET absolute_x == search_region.x + match_location.x
                               + I32Div(template.width, 2)
             absolute_y == search_region.y + match_location.y
                               + I32Div(template.height, 2)
         IN  The({IF r.ok THEN Ok(r.point[1])
                  ELSE Err("ScreenCoordinateError") :
                    r \in {Location_ScreenCoordinates_new(absolute_x,
                                                          absolute_y)}})

\* The tolerance handed to find_bitmap, in tenths.
NeedleTolerance == 8

\* Bitmap::find_bitmap(needle, Some(0.8), ..): the location of the needle,
\* or None when no region of the frame matches it within the tolerance.
\* similarity is that of the best region, in tenths.
find_bitmap(similarity, location) ==
    IF similarity >= NeedleTolerance THEN Some(location) ELSE None

\* BitmapNeedleStrategy::get_location: the template is read with expect(),
\* capture_screen() leaves through `?`, the Option of find_bitmap is unwrapped
\* with expect() and the point converted with From<geometry::Point>.
BitmapNeedleStrategy_get_location(template_ok, io_ok, similarity, location) ==
    IF ~template_ok THEN Panic
    ELSE IF ~io_ok THEN Err("image::ImageError")
    ELSE The({IF found = None THEN Panic
              ELSE The({IF p.panicked THEN Panic ELSE Ok(p.point[1]) :
                          p \in {From_Point(found[1])}}) :
                found \in {find_bitmap(similarity, location)}})

\* EdgeParsingStrategy::get_location: unimplemented!()
EdgeParsingStrategy_get_location == Panic

\* bitmap::capture_screen() of autopilot: the image holds the physical
\* pixels of the screen, size is the size of the image divided by the scale
\* factor, which is screen::size().
capture_screen ==
    [size |-> [width |-> FromInt(ScreenWidth), height |-> FromInt(ScreenHeight)],
     image |-> [width |-> ToPhysical(FromInt(ScreenWidth)),
                height |-> ToPhysical(FromInt(ScreenHeight))]]

\* convert_bitmap_to_mat of utils.rs: a Mat of `screen.size.height as i32`
\* rows and `screen.size.width as i32` columns over the raw pixels.
convert_bitmap_to_mat(bitmap) ==
    Mat(AsI32(bitmap.size.width), AsI32(bitmap.size.height), {})

\* From<ScreenRect> for core::Rect: each field is cast with `as i32`.
From_ScreenRect_for_core_Rect(screen_rect) ==
    [x |-> AsI32(screen_rect.x), y |-> AsI32(screen_rect.y),
     width |-> AsI32(screen_rect.width), height |-> AsI32(screen_rect.height)]

\* convert_aprect_to_ocvrect of utils.rs: each field is multiplied by the
\* scale factor and cast with `as i32`.
convert_aprect_to_ocvrect(rect) ==
    [x |-> ToPhysical(rect.x), y |-> ToPhysical(rect.y),
     width |-> ToPhysical(rect.width), height |-> ToPhysical(rect.height)]

\* The start of TemplateMatchingStrategy::get_location, up to Mat::roi: the
\* frame that was captured, the rectangle handed to Mat::roi and the region
\* it crops out.
TemplateMatchingStrategy_roi(search_region) ==
    LET screenshot == capture_screen
        region == UnwrapOr(search_region, ScreenRect_default.rect[1])
    IN  The({[frame |-> screenshot.image, rect |-> rect,
              roi |-> Mat_roi(convert_bitmap_to_mat(screenshot), rect)] :
                rect \in {From_ScreenRect_for_core_Rect(region)}})

-----------------------------------------------------------------------------
(* Locating a target: a call is drawn with what the primitives report, then *)
(* made                                                                     *)

\* Template sizes, in pixels.
TemplateSizes == {2, 4}

\* The similarity of the best region to the template, in tenths.
Similarities == {0, NeedleTolerance - 1, NeedleTolerance, 10}

TemplateMatchingCalls ==
    [op : {"template_matching"}, done : {FALSE}, io_ok : BOOLEAN,
     similarity : Similarities,
     mx : 0..(MaxRaw(ScreenWidth) + 1), my : 0..(MaxRaw(ScreenHeight) + 1),
     tw : TemplateSizes, th : TemplateSizes]

ImageTemplateCalls ==
    [op : {"image_template"}, done : {FALSE}, io_ok : BOOLEAN,
     similarity : Similarities,
     mx : 0..(ScreenWidth + 1), my : 0..(ScreenHeight + 1),
     tw : TemplateSizes, th : TemplateSizes]

BitmapNeedleCalls ==
    [op : {"bitmap_needle"}, done : {FALSE}, io_ok : BOOLEAN,
     template_ok : BOOLEAN, similarity : Similarities,
     mx : PointXs, my : PointYs]

EdgeParsingCalls == {[op |-> "edge_parsing", done |-> FALSE]}

\* The search regions handed to get_location: none, which is the whole
\* screen, or the first unit square.
SearchRegions ==
    {None,
     Some([x |-> Zero, y |-> Zero, width |-> FromInt(1), height |-> FromInt(1)])}

SearchRoiCalls ==
    [op : {"search_roi"}, done : {FALSE}, search_region : SearchRegions]

InitLocate ==
    /\ scale \in Scales
    /\ overflow_checks = FALSE
    /\ CoordIdle
    /\ FireIdle
    /\ VerbIdle
    /\ call \in TemplateMatchingCalls \cup ImageTemplateCalls
                  \cup BitmapNeedleCalls \cup EdgeParsingCalls
                  \cup SearchRoiCalls

\* get_location returns r to its caller, or panics.
Located(r) ==
    /\ call' = [op |-> call.op, done |-> TRUE, args |-> call,
                kind |-> r.kind, point |-> r.point, err |-> r.err]
    /\ UNCHANGED <<coordVars, fireVars, verbVars>>

TemplateMatching ==
    /\ call.op = "template_matching"
    /\ ~call.done
    /\ Located(TemplateMatchingStrategy_get_location(
                   call.io_ok, [x |-> call.mx, y |-> call.my]))

\* the search region is the default, the whole screen
ImageTemplate ==
    /\ call.op = "image_template"
    /\ ~call.done
    /\ Located(ImageTemplate_get_location(
                   [x |-> 0, y |-> 0], call.io_ok,
                   [x |-> call.mx, y |-> call.my],
                   [width |-> call.tw, height |-> call.th]))

BitmapNeedle ==
    /\ call.op = "bitmap_needle"
    /\ ~call.done
    /\ Located(BitmapNeedleStrategy_get_location(
                   call.template_ok, call.io_ok, call.similarity,
                   [x |-> FromInt(call.mx), y |-> FromInt(call.my)]))

EdgeParsing ==
    /\ call.op = "edge_parsing"
    /\ ~call.done
    /\ Located(EdgeParsingStrategy_get_location)

\* get_location crops its search region out of the captured frame.
SearchRoi ==
    /\ call.op = "search_roi"
    /\ ~call.done
    /\ \E r \in {TemplateMatchingStrategy_roi(call.search_region)} :
          call' = [op |-> call.op, done |-> TRUE, args |-> call,
                   frame |-> r.frame, rect |-> r.rect, roi |-> r.roi]
    /\ UNCHANGED <<coordVars, fireVars, verbVars>>

NextLocate ==
    \/ TemplateMatching
    \/ ImageTemplate
    \/ BitmapNeedle
    \/ EdgeParsing
    \/ SearchRoi

SpecLocate == InitLocate /\ [][NextLocate]_vars

-----------------------------------------------------------------------------
(* Comparing two frames: a call of changed_ui_state is drawn, then made *)

MaxFrame == 2       \* frames are up to MaxFrame x MaxFrame pixels

FrameSizes == (1..MaxFrame) \X (1..MaxFrame)

\* The masks: up to one element larger than the largest frame.
RoiSizes == (1..(MaxFrame + 1)) \X (1..(MaxFrame + 1))

\* Where the after frame differs from the all-black before frame: nowhere,
\* in its first pixel or in its last.
ChangedPixels(size) == {{}, {<<1, 1>>}, {size}}

\* The bounding rectangle of the non-zero elements of a mask of the given
\* size: the whole mask, its first element or its last.
NonZeroRects(size) ==
    {[x |-> 0, y |-> 0, width |-> size[1], height |-> size[2]],
     [x |-> 0, y |-> 0, width |-> 1, height |-> 1],
     [x |-> size[1] - 1, y |-> size[2] - 1, width |-> 1, height |-> 1]}

Rois ==
    {None} \cup
    UNION {{Some([cols |-> size[1], rows |-> size[2],
                  non_zero_rect |-> rect]) : rect \in NonZeroRects(size)} :
              size \in RoiSizes}

\* Frames of the given size: black, but for a first or a last pixel that is
\* white or dark blue.
Frames(size) ==
    {Painted(Mat(size[1], size[2], white), blue) :
        white \in ChangedPixels(size), blue \in ChangedPixels(size)}

\* changed_ui_state(before, after, roi_mat): a black before frame with an
\* after frame of any size, and two frames of one size.
ChangedUiStateCalls ==
    UNION {{[op |-> "changed_ui_state", done |-> FALSE,
             before |-> Mat(b[1], b[2], {}), after |-> Mat(a[1], a[2], w),
             roi_mat |-> roi] : w \in ChangedPixels(a), roi \in Rois} :
              b \in FrameSizes, a \in FrameSizes}
    \cup
    UNION {[op : {"changed_ui_state"}, done : {FALSE},
            before : Frames(size), after : Frames(size), roi_mat : Rois] :
              size \in FrameSizes}

InitCompare ==
    /\ scale = FromInt(1)
    /\ overflow_checks = FALSE
    /\ CoordIdle
    /\ FireIdle
    /\ VerbIdle
    /\ call \in ChangedUiStateCalls

ChangedUiState ==
    /\ call.op = "changed_ui_state"
    /\ ~call.done
    /\ \E r \in {changed_ui_state_roi(call.before, call.after, call.roi_mat)} :
          call' = [op |-> call.op, done |-> TRUE, args |-> call,
                   kind |-> r.kind, value |-> r.value, err |-> r.err]
    /\ UNCHANGED <<coordVars, fireVars, verbVars>>

NextCompare == ChangedUiState

SpecCompare == InitCompare /\ [][NextCompare]_vars

-----------------------------------------------------------------------------
(* src/verb/click.rs and src/verb/input.rs: the check-zone of a new verb *)

\* The side of the box watched around an absolute target.
AbsoluteZoneSize == 150

\* The check_zone field of Click::new: target is what
\* target_factory.get_location() returned, check_zone the optional argument.
Click_new(target_factory, target, check_zone) ==
    IF check_zone # None
    THEN [panicked |-> FALSE, rect |-> check_zone]
    ELSE IF target_factory.kind = "AbsoluteTarget"
         THEN ScreenCoordinates_generate_rect(target, U64(AbsoluteZoneSize),
                                              U64(AbsoluteZoneSize), "Center")
         ELSE ScreenRect_new(target.x, target.y,
                             FromInt(target_factory.width),
                             FromInt(target_factory.height))

\* The check_zone field of Input::new: for a template the top-left corner is
\* the target less half of the template's size.
Input_new(target_factory, target, check_zone) ==
    IF check_zone # None
    THEN [panicked |-> FALSE, rect |-> check_zone]
    ELSE IF target_factory.kind = "AbsoluteTarget"
         THEN ScreenCoordinates_generate_rect(target, U64(AbsoluteZoneSize),
                                              U64(AbsoluteZoneSize), "Center")
         ELSE LET width == FromInt(target_factory.width)
                  height == FromInt(target_factory.height)
              IN  The({ScreenRect_new(top_left_x, top_left_y, width, height) :
                        top_left_x \in {FAdd(target.x,
                                             Negate(FDiv(width, FromInt(2))))},
                        top_left_y \in {FAdd(target.y,
                                             Negate(FDiv(height, FromInt(2))))}})

-----------------------------------------------------------------------------
(* The construction of a verb: a call is drawn with its arguments, then made *)

\* Width and height of the template images.
ZoneTemplateSizes == {2, 4}

TargetFactories ==
    {[kind |-> "AbsoluteTarget"]}
        \cup [kind : {"TemplateTarget"},
              width : ZoneTemplateSizes, height : ZoneTemplateSizes]

\* The explicit check-zones handed to the constructors.
ExplicitZones ==
    {None,
     Some([x |-> Zero, y |-> Zero,
           width |-> FromInt(1), height |-> FromInt(1)]),
     Some([x |-> FromInt(1), y |-> Zero,
           width |-> FromInt(ScreenWidth - 1),
           height |-> FromInt(ScreenHeight)])}

\* Click::new(target_factory, button, check_zone) where get_location gives
\* ScreenCoordinates::new(x, y)
ClickNewCalls ==
    [op : {"Click_new"}, done : {FALSE},
     target_factory : TargetFactories,
     x : 0..MaxRaw(ScreenWidth), y : 0..MaxRaw(ScreenHeight),
     check_zone : ExplicitZones]

\* Input::new(target_factory, input_string, submit, check_zone)
InputNewCalls ==
    [op : {"Input_new"}, done : {FALSE},
     target_factory : TargetFactories,
     x : 0..MaxRaw(ScreenWidth), y : 0..MaxRaw(ScreenHeight),
     check_zone : ExplicitZones]

InitZone ==
    /\ scale \in Scales
    /\ overflow_checks \in BOOLEAN
    /\ CoordIdle
    /\ FireIdle
    /\ VerbIdle
    /\ call \in ClickNewCalls \cup InputNewCalls

\* The constructor returns a verb with the check-zone r.rect, or panics.
Constructed(target, r) ==
    /\ call' = [op |-> call.op, done |-> TRUE, args |-> call,
                target |-> target, panicked |-> r.panicked, rect |-> r.rect]
    /\ UNCHANGED <<coordVars, fireVars, verbVars>>

ClickNew ==
    /\ call.op = "Click_new"
    /\ ~call.done
    /\ \E p \in {ScreenCoordinates_new(FromInt(call.x), FromInt(call.y))} :
          /\ p.ok
          /\ Constructed(p.point[1],
                         Click_new(call.target_factory, p.point[1],
                                   call.check_zone))

InputNew ==
    /\ call.op = "Input_new"
    /\ ~call.done
    /\ \E p \in {ScreenCoordinates_new(FromInt(call.x), FromInt(call.y))} :
          /\ p.ok
          /\ Constructed(p.point[1],
                         Input_new(call.target_factory, p.point[1],
                                   call.check_zone))

NextZone ==
    \/ ClickNew
    \/ InputNew

SpecZone == InitZone /\ [][NextZone]_vars

-----------------------------------------------------------------------------
(* Claims about the coordinate model, checked under SpecCoord *)

Width == FromInt(ScreenWidth)

Height == FromInt(ScreenHeight)

OnScreen(p) ==
    /\ RGe(p.x, Zero) /\ RGe(Width, p.x)
    /\ RGe(p.y, Zero) /\ RGe(Height, p.y)

CoordinateOps == {"new", "shift", "from"}

\* C6, as stated: ScreenCoordinates::new returns a ScreenCoordinateError for
\* every input with x >= screen width or y >= screen height, whatever the
\* scale factor.
C6_AtOrBeyondExtentRejected ==
    (/\ last.op \in {"new", "location_new"}
     /\ (last.x >= ScreenWidth \/ last.y >= ScreenHeight))
        => ~last.ok

\* C6, amended: ScreenCoordinates::new returns a ScreenCoordinateError whenever
\* x divided by the scale factor is strictly greater than the screen width or
\* y divided by the scale factor is strictly greater than the screen height
\* (nav::location, which has no scale factor: whenever x > width or
\* y > height).
C6_BeyondExtentRejected ==
    /\ (/\ last.op = "new"
        /\ (last.x > MaxRaw(ScreenWidth) \/ last.y > MaxRaw(ScreenHeight)))
           => ~last.ok
    /\ (/\ last.op = "location_new"
        /\ (last.x > ScreenWidth \/ last.y > ScreenHeight))
           => ~last.ok

\* A y beyond the screen, with x on it, at scale factor 2, was rejected.
C6_Witness ==
    /\ last.op = "new"
    /\ scale = FromInt(2)
    /\ last.x = 1
    /\ last.y = 2 * ScreenHeight + 1
    /\ ~last.ok

\* C7: every ScreenCoordinates value obtained through new, shift or
\* From<geometry::Point> has 0 <= x <= screen width and 0 <= y <= screen
\* height, and an operation that fails produces no value.
C7_PointsOnScreen ==
    /\ pt # None => OnScreen(pt[1])
    /\ (last.op \in CoordinateOps /\ last.out # None) => OnScreen(last.out[1])
    /\ (last.op \in CoordinateOps /\ ~last.ok) => last.out = None

\* A point on the screen was shifted onto the right edge of the screen.
C7_Witness ==
    /\ last.op = "shift"
    /\ last.x = 1
    /\ last.ok
    /\ last.out # None
    /\ last.out[1].x = Width
    /\ last.self[1].x # Width

\* C8: for 0 <= x < screen width and 0 <= y < screen height and every scale
\* factor, ScreenCoordinates::new(x, y) succeeds and the stored coordinates
\* converted back to physical pixels are (x, y) again.
C8_NewRoundTrips ==
    (/\ last.op = "new"
     /\ 0 <= last.x /\ last.x < ScreenWidth
     /\ 0 <= last.y /\ last.y < ScreenHeight)
        => /\ last.ok
           /\ last.out # None
           /\ ToPhysical(last.out[1].x) = last.x
           /\ ToPhysical(last.out[1].y) = last.y

\* The largest raw value of an axis that the operation accepts.
MaxRawX == IF last.op = "new" THEN MaxRaw(ScreenWidth) ELSE ScreenWidth

MaxRawY == IF last.op = "new" THEN MaxRaw(ScreenHeight) ELSE ScreenHeight

\* C9, as stated: a zero or negative input never produces an error; it is
\* clamped to 0, so ScreenCoordinates::new with a negative x or y and the
\* other axis in range succeeds with that axis equal to 0.
C9_NonPositiveNeverErrors ==
    (/\ last.op \in {"new", "location_new"}
     /\ (last.x <= 0 \/ last.y <= 0)
     /\ last.x <= MaxRawX
     /\ last.y <= MaxRawY)
        => /\ last.ok
           /\ last.out # None
           /\ last.x <= 0 => last.out[1].x = Zero
           /\ last.y <= 0 => last.out[1].y = Zero

\* C9, amended: in nav::coordinate a zero or negative input never produces an
\* error: it is clamped to 0, so every Coordinate value is >= 0 and
\* ScreenCoordinates::new with a negative x or y and the other axis in range
\* succeeds with that axis equal to 0. The ScreenCoordinates::new of
\* nav::location returns a ScreenCoordinateError for a negative x or y.
C9_NonPositiveClamped ==
    /\ (/\ last.op = "new"
        /\ (last.x <= 0 \/ last.y <= 0)
        /\ last.x <= MaxRawX
        /\ last.y <= MaxRawY)
           => /\ last.ok
              /\ last.out # None
              /\ last.x <= 0 => last.out[1].x = Zero
              /\ last.y <= 0 => last.out[1].y = Zero
    /\ (last.op \in CoordinateOps /\ last.out # None)
           => RGe(last.out[1].x, Zero) /\ RGe(last.out[1].y, Zero)
    /\ (last.op = "location_new" /\ (last.x < 0 \/ last.y < 0)) => ~last.ok

\* A negative x with y on the screen was accepted and stored as 0.
C9_Witness ==
    /\ last.op = "new"
    /\ last.x < 0
    /\ last.y = 1
    /\ last.ok
    /\ last.out[1].x = Zero

\* The sums that p.shift(dx, dy) is about, in the units of p.
ShiftedX == RAdd(last.self[1].x, FromInt(last.x))

ShiftedY == RAdd(last.self[1].y, FromInt(last.y))

\* C10: for every point p on the screen and every (dx, dy), shift returns an
\* error whenever (p.x + dx, p.y + dy) lies outside the screen on any side,
\* and p is left unchanged.
C10_ShiftOffScreenRejected ==
    (/\ last.op = "shift"
     /\ ~OnScreen([x |-> ShiftedX, y |-> ShiftedY]))
        => /\ ~last.ok
           /\ pt = last.self

\* C22: for every point p on the screen, every (dx, dy) whose sum stays on
\* the screen and every scale factor, shift returns the point
\* (p.x + dx, p.y + dy) in the units of p; shift(p, 0, 0) is p.
C22_ShiftAddsExactly ==
    (/\ last.op = "shift"
     /\ OnScreen([x |-> ShiftedX, y |-> ShiftedY]))
        => /\ last.ok
           /\ last.out = Some([x |-> ShiftedX, y |-> ShiftedY])

-----------------------------------------------------------------------------
(* Claims about GuiVerb::fire, checked under SpecFire *)

\* C1: whatever the timeout and the wait_duration, when the interface never
\* changes after the action, fire returns UIActionTimeOutError: it does not
\* panic, its remaining-time counter does not wrap around, and it returns
\* nothing else.
C1_NoChangeTimesOut ==
    (f_pc # "idle" /\ ui_change_at = Never)
        => /\ f_result # "panic"
           /\ ~f_wrapped
           /\ (f_pc = "done" /\ f_result # "error") => f_result = "timeout"

\* C2: when the interface never changes, the time between the start of the
\* verification and the return of the timeout error is within one
\* wait_duration of the configured timeout.
C2_TimeOutAfterTimeout ==
    (f_pc = "done" /\ f_result = "timeout" /\ ui_change_at = Never)
        => /\ f_now <= f_timeout0 + f_wait
           /\ f_now >= f_timeout0 - f_wait

\* C3: when the frame starts to differ from the baseline strictly before the
\* configured timeout and stays different, and wait_duration is no larger
\* than the timeout, fire returns success with an elapsed time below the
\* timeout.
C3_ChangeBeforeTimeoutSucceeds ==
    (/\ f_pc = "done"
     /\ f_result # "error"
     /\ ui_change_at # Never
     /\ ui_change_at < f_timeout0
     /\ f_wait <= f_timeout0)
        => /\ f_result = "ok"
           /\ f_now < f_timeout0

\* The pixels of the frame that lie in the check-zone of the verb being
\* fired: the first one.
CheckZonePixels == {1}

\* C17: verification during fire compares the baseline and the current frame
\* only inside the check-zone of the verb: a change of pixels that lies
\* entirely outside the check-zone never makes fire report success.
C17_ChangeOutsideZoneIgnored ==
    (/\ f_pc = "done"
     /\ ui_change_px \notin CheckZonePixels)
        => f_result # "ok"

\* C18: the timeout error that fire returns carries the elapsed time and the
\* condition that was awaited (same or changed).
C18_TimeOutErrorCarriesContext ==
    (f_pc = "done" /\ f_result = "timeout")
        => /\ f_error # None
           /\ {"elapsed", "awaited"} \subseteq DOMAIN f_error[1]

\* C20: fire returns success at the first poll whose frame satisfies the
\* awaited condition: the poll that captures a frame different from the
\* baseline ends fire with success, and after it there is no further sleep
\* and no further capture.
C20_SuccessAtFirstChangedPoll ==
    [][/\ (f_polls' = f_polls + 1 /\ changed_ui_state(f_before, f_after'))
            => (f_pc' = "done" /\ f_result' = "ok")
       /\ (f_result = "ok")
            => (f_now' = f_now /\ f_polls' = f_polls /\ f_after' = f_after
                /\ f_result' = "ok" /\ f_pc' = "done")]_vars

\* fire returned success at its second poll.
C20_Witness ==
    /\ f_pc = "done"
    /\ f_result = "ok"
    /\ f_polls = 2

-----------------------------------------------------------------------------
(* Claims about the verbs' fire and execute, checked under SpecVerb *)

Injected == {i \in 1..Len(v_events) : v_events[i] # "capture"}

\* C4: in a verb's fire the primitive action is performed only after the
\* stability pre-check has succeeded; when the pre-check returns a timeout or
\* a bounds error, fire returns that error and no cursor move, click or key
\* event has been injected.
C4_ActionOnlyAfterPrecheck ==
    /\ Injected # {} => v_precheck = "ok"
    /\ v_precheck \in {"timeout", "bounds"}
          => /\ v_pc = "done"
             /\ v_result = v_precheck
             /\ Injected = {}

\* The pre-check timed out on a screen that kept changing, and fire returned.
C4_Witness ==
    /\ v_precheck = "timeout"
    /\ v_pc = "done"

\* The position in v_events of the capture that execute() returns.
BaselineAt == CHOOSE i \in 1..Len(v_events) : v_events[i] = "capture"

\* C5: for Click and for Input, the frame that execute returns is captured
\* before any click or key event of the verb is injected, so it holds no
\* effect of the verb's own input events.
C5_BaselineBeforeInputEvents ==
    v_before # None
        => /\ \A i \in 1..Len(v_events) :
                 v_events[i] \in InputEvents => i > BaselineAt
           /\ v_before[1].effects = {}

\* How many times the primitive action of the verb, its click, has been
\* performed in this call of fire.
Executions == Cardinality({i \in 1..Len(v_events) : v_events[i] = "click"})

\* C21 as stated: within one call of fire the primitive action is performed
\* exactly once, whatever the outcome of the call.
C21_ExecutedExactlyOnce ==
    v_pc = "done" => Executions = 1

\* C21, amended: within one call of fire the primitive action is performed
\* at most once; it has been performed exactly once when fire returns the
\* outcome of the verification, a timeout included, and not at all when fire
\* returns the error of the stability pre-check.
C21_ExecutedAtMostOnce ==
    /\ Executions <= 1
    /\ v_pc = "verify" => Executions = 1
    /\ (v_pc = "done" /\ v_precheck = "ok" /\ v_result # "error")
          => Executions = 1
    /\ (v_pc = "done" /\ v_precheck # "ok") => Executions = 0

\* The verification after the action timed out and fire returned.
C21_Witness ==
    /\ v_pc = "done"
    /\ v_precheck = "ok"
    /\ v_result = "timeout"
    /\ Executions = 1

-----------------------------------------------------------------------------
(* Claims about rectangles, checked under SpecRect *)

\* The rectangle r lies on the screen: its origin is on it and the origin
\* plus the size does not exceed the extent.
RectOnScreen(r) ==
    /\ RGe(r.x, Zero)
    /\ RGe(r.y, Zero)
    /\ RGe(r.width, Zero)
    /\ RGe(r.height, Zero)
    /\ RGe(Width, RAdd(r.x, r.width))
    /\ RGe(Height, RAdd(r.y, r.height))

GenerateRectOps == {"generate_rect", "location_generate_rect"}

\* C11: for every anchor point on the screen, every anchor mode and every
\* requested width and height, generate_rect does not fail and returns a
\* rectangle with 0 <= origin and origin + size <= screen extent.
C11_GenerateRectOnScreen ==
    (call.op \in GenerateRectOps /\ call.done)
        => /\ ~call.panicked
           /\ call.rect # None
           /\ RectOnScreen(call.rect[1])

ScreenRectOps == {"rect_new", "rect_from_core", "rect_default"}

\* C12: every ScreenRect produced by ScreenRect::new, by Default or by
\* From<core::Rect>, for any x, y, width and height, has its origin on the
\* screen and origin + size within the screen extent, and the construction
\* does not panic, also when the given origin is beyond the screen edge.
C12_ScreenRectOnScreen ==
    (call.op \in ScreenRectOps /\ call.done)
        => /\ ~call.panicked
           /\ call.rect # None
           /\ RectOnScreen(call.rect[1])

-----------------------------------------------------------------------------
(* Claims about the location strategies, checked under SpecLocate *)

\* The centre of a template of size tw x th whose top-left corner is matched
\* at (mx, my).
CentreOfMatch ==
    [x |-> FromInt(call.args.mx + call.args.tw \div 2),
     y |-> FromInt(call.args.my + call.args.th \div 2)]

\* C13: when the match primitive reports the top-left corner (mx, my) for a
\* template of size tw x th, template matching resolves to the centre
\* (mx + tw/2, my + th/2), and to the same point at scale factors 1 and 2.
C13_TemplateResolvesToCentre ==
    (/\ call.op \in {"template_matching", "image_template"}
     /\ call.done
     /\ scale \in {FromInt(1), FromInt(2)}
     /\ call.kind = "ok")
        => call.point = Some(CentreOfMatch)

\* C14: resolving a location with the EdgeParsing strategy returns a
\* 'not implemented' error value to the caller; it neither returns a
\* coordinate nor aborts the process.
C14_EdgeParsingReturnsError ==
    (call.op = "edge_parsing" /\ call.done)
        => /\ call.kind = "err"
           /\ call.err = Some("NotImplemented")

\* No region of the frame is as similar to the template as the threshold
\* asks, and the primitives themselves worked.
NoRegionMatches ==
    /\ call.args.similarity < NeedleTolerance
    /\ call.args.io_ok
    /\ call.op = "bitmap_needle" => call.args.template_ok

\* C15: when no region of the captured frame matches the template with a
\* similarity of at least the threshold, get_location of BitmapNeedle and of
\* TemplateMatching returns a NoMatch error value, not a coordinate and not
\* a panic.
C15_NoMatchIsAnError ==
    (/\ call.op \in {"bitmap_needle", "template_matching"}
     /\ call.done
     /\ NoRegionMatches)
        => /\ call.kind = "err"
           /\ call.err = Some("NoMatch")

\* C24: for the default search region, the whole screen, the region that a
\* location strategy crops out of the captured frame is the entire frame for
\* every scale factor: the region is converted from scaled units to the
\* physical pixels of the frame before the crop.
C24_DefaultRegionCoversFrame ==
    (/\ call.op = "search_roi"
     /\ call.done
     /\ call.args.search_region = None)
        => /\ call.rect = convert_aprect_to_ocvrect(ScreenRect_default.rect[1])
           /\ call.roi # None
           /\ call.roi[1].cols = call.frame.width
           /\ call.roi[1].rows = call.frame.height

-----------------------------------------------------------------------------
(* Claims about the frame comparison, checked under SpecCompare *)

\* The mask is wider or higher than the frame m.
RoiExceeds(m) ==
    /\ call.args.roi_mat # None
    /\ \/ call.args.roi_mat[1].cols > m.cols
       \/ call.args.roi_mat[1].rows > m.rows

\* C16: when the region of interest handed to the frame comparison is larger
\* than the before frame or than the after frame, in width or in height, the
\* comparison returns an OutOfBoundsError; it does not panic and does not
\* compare a cropped region.
C16_OversizedRoiIsOutOfBounds ==
    (/\ call.op = "changed_ui_state"
     /\ call.done
     /\ (RoiExceeds(call.args.before) \/ RoiExceeds(call.args.after)))
        => /\ call.kind = "err"
           /\ call.err = Some("OutOfBoundsError")

-----------------------------------------------------------------------------
(* Claims about the check-zone, checked under SpecZone *)

RMax(a, b) == IF RGe(a, b) THEN a ELSE b

RMin(a, b) == IF RGe(a, b) THEN b ELSE a

\* The box of the given size whose centre is the point, cut to the screen.
BoxAround(point, width, height) ==
    LET left == RMax(Zero, RAdd(point.x, Negate(RDiv(width, FromInt(2)))))
        top == RMax(Zero, RAdd(point.y, Negate(RDiv(height, FromInt(2)))))
        right == RMin(Width, RAdd(point.x, RDiv(width, FromInt(2))))
        bottom == RMin(Height, RAdd(point.y, RDiv(height, FromInt(2))))
    IN  [x |-> left, y |-> top,
         width |-> RAdd(right, Negate(left)),
         height |-> RAdd(bottom, Negate(top))]

\* The check-zone the verb should have for the arguments of the call.
ExpectedZone ==
    IF call.args.check_zone # None
    THEN call.args.check_zone[1]
    ELSE IF call.args.target_factory.kind = "AbsoluteTarget"
         THEN BoxAround(call.target, FromInt(AbsoluteZoneSize),
                        FromInt(AbsoluteZoneSize))
         ELSE BoxAround(call.target,
                        FromInt(call.args.target_factory.width),
                        FromInt(call.args.target_factory.height))

ZoneOps == {"Click_new", "Input_new"}

\* C19: without an explicit check-zone the check-zone of a verb is, for an
\* absolute target, the 150 x 150 box centred on the target point and, for a
\* template target, the box of the template's width and height around the
\* resolved centre point; Click and Input derive the same check-zone for the
\* same target; an explicit check-zone is used unchanged.
C19_CheckZoneDerivation ==
    (call.op \in ZoneOps /\ call.done)
        => /\ ~call.panicked
           /\ call.rect # None
           /\ call.rect[1] = ExpectedZone
           /\ call.rect = Click_new(call.args.target_factory, call.target,
                                    call.args.check_zone).rect
           /\ call.rect = Input_new(call.args.target_factory, call.target,
                                    call.args.check_zone).rect

\* C26: for every absolute target point on the screen, the points on an edge
\* or in a corner included, the check-zone that Click::new and Input::new
\* derive when none is given has a width and a height that are not zero.
C26_DefaultZoneNotEmpty ==
    (/\ call.op \in ZoneOps
     /\ call.done
     /\ call.args.target_factory.kind = "AbsoluteTarget"
     /\ call.args.check_zone = None)
        => /\ ~call.panicked
           /\ call.rect # None
           /\ RGt(call.rect[1].width, Zero)
           /\ RGt(call.rect[1].height, Zero)

-----------------------------------------------------------------------------
(* Claims about the anchors of generate_rect, checked under SpecRect *)

\* The requested size as a number; a size of 2^16 or more, which is beyond
\* every screen of the model, counts as 2^16.
Requested(c) ==
    FromInt(IF c[2] = 0 /\ c[3] = 0 /\ c[4] = 0 THEN c[1] ELSE LimbBase)

RSub(a, b) == RAdd(a, Negate(b))

\* The point that generate_rect of the call was called on.
AnchorPoint ==
    ScreenCoordinates_new(FromInt(call.args.x), FromInt(call.args.y)).point[1]

\* a and b are less than one unit apart
WithinOne(a, b) ==
    /\ RGt(RAdd(a, FromInt(1)), b)
    /\ RGt(RAdd(b, FromInt(1)), a)

\* The point p is the named anchor of the rectangle r, and the sides of r are
\* the requested ones cut to the distance from p to the edge of the screen
\* that r extends toward (for Center: to the nearer edge).
IsAnchorOf(p, r, width, height, anchor) ==
    LET toLeft == p.x
        toRight == RSub(Width, p.x)
        toTop == p.y
        toBottom == RSub(Height, p.y)
    IN  CASE anchor = "TopLeft" ->
                /\ r.x = p.x
                /\ r.y = p.y
                /\ r.width = RMin(width, toRight)
                /\ r.height = RMin(height, toBottom)
          [] anchor = "TopRight" ->
                /\ RAdd(r.x, r.width) = p.x
                /\ r.y = p.y
                /\ r.width = RMin(width, toLeft)
                /\ r.height = RMin(height, toBottom)
          [] anchor = "BottomLeft" ->
                /\ r.x = p.x
                /\ RAdd(r.y, r.height) = p.y
                /\ r.width = RMin(width, toRight)
                /\ r.height = RMin(height, toTop)
          [] anchor = "BottomRight" ->
                /\ RAdd(r.x, r.width) = p.x
                /\ RAdd(r.y, r.height) = p.y
                /\ r.width = RMin(width, toLeft)
                /\ r.height = RMin(height, toTop)
          [] anchor = "Center" ->
                /\ WithinOne(RAdd(r.x, RDiv(r.width, FromInt(2))), p.x)
                /\ WithinOne(RAdd(r.y, RDiv(r.height, FromInt(2))), p.y)
                /\ r.width = RMin(width, RMin(toLeft, toRight))
                /\ r.height = RMin(height, RMin(toTop, toBottom))

\* C23: for each anchor mode and every scale factor the point generate_rect
\* is called on is the named anchor of the returned rectangle (TopLeft: the
\* origin is the point; TopRight: origin.x + width = point.x and origin.y =
\* point.y; BottomLeft: origin.x = point.x and origin.y + height = point.y;
\* BottomRight: origin + size is the point; Center: the point is the centre,
\* up to integer halving), and each side is min(requested, distance from the
\* point to the screen edge the rectangle extends toward).
C23_PointIsNamedAnchor ==
    (call.op = "generate_rect" /\ call.done)
        => /\ ~call.panicked
           /\ call.rect # None
           /\ IsAnchorOf(AnchorPoint, call.rect[1],
                         Requested(call.args.width),
                         Requested(call.args.height), call.args.anchor)

\* The point that generate_rect of the call, of either revision, was called
\* on.
CalledOn ==
    IF call.op = "generate_rect"
    THEN AnchorPoint
    ELSE Location_ScreenCoordinates_new(call.args.x, call.args.y).point[1]

\* The rectangle of the given size that has the point p as its named anchor.
PlacedAt(p, width, height, anchor) ==
    LET half_w == RDiv(width, FromInt(2))
        half_h == RDiv(height, FromInt(2))
        origin_x == CASE anchor \in {"TopLeft", "BottomLeft"} -> p.x
                      [] anchor \in {"TopRight", "BottomRight"} ->
                            RSub(p.x, width)
                      [] anchor = "Center" -> RSub(p.x, half_w)
        origin_y == CASE anchor \in {"TopLeft", "TopRight"} -> p.y
                      [] anchor \in {"BottomLeft", "BottomRight"} ->
                            RSub(p.y, height)
                      [] anchor = "Center" -> RSub(p.y, half_h)
    IN  [x |-> origin_x, y |-> origin_y, width |-> width, height |-> height]

\* C25: generate_rect truncates only when needed: whenever the rectangle of
\* the requested width and height placed at the point with the given anchor
\* lies fully on the screen, the returned rectangle has exactly the requested
\* width and height, for all five anchors.
C25_TruncatesOnlyWhenNeeded ==
    (/\ call.op \in GenerateRectOps
     /\ call.done
     /\ RectOnScreen(PlacedAt(CalledOn, Requested(call.args.width),
                              Requested(call.args.height), call.args.anchor)))
        => /\ ~call.panicked
           /\ call.rect # None
           /\ call.rect[1].width = Requested(call.args.width)
           /\ call.rect[1].height = Requested(call.args.height)

-----------------------------------------------------------------------------
(* Claims about the comparison of equal frames, checked under SpecCompare *)

\* The pixels of a frame m that the comparison of the call looks at.
Compared(m) ==
    LET all == (1..m.cols) \X (1..m.rows)
        rect == call.args.roi_mat[1].non_zero_rect
    IN  IF call.args.roi_mat = None
        THEN all
        ELSE {pos \in all : /\ pos[1] > rect.x /\ pos[1] <= rect.x + rect.width
                            /\ pos[2] > rect.y
                            /\ pos[2] <= rect.y + rect.height}

\* C27: for two frames of equal size changed_ui_state is symmetric and
\* irreflexive: changed_ui_state(f, f) is false, changed_ui_state(a, b) =
\* changed_ui_state(b, a), and the result is true if and only if at least one
\* compared pixel of a and b differs.
C27_ComparisonIsPixelInequality ==
    (/\ call.op = "changed_ui_state"
     /\ call.done
     /\ call.kind = "ok"
     /\ call.args.before.cols = call.args.after.cols
     /\ call.args.before.rows = call.args.after.rows)
        => /\ call.args.before = call.args.after => call.value = Some(FALSE)
           /\ call.value = changed_ui_state_roi(call.args.after,
                                                call.args.before,
                                                call.args.roi_mat).value
           /\ call.value = Some(\E pos \in Compared(call.args.before) :
                                   PixelAt(call.args.before, pos)
                                       # PixelAt(call.args.after, pos))

====
